---------------------------- MODULE Spec2Model ----------------------------
(***************************************************************************)
(* A model of src/utils/file_processing.py: the retry decorator, the       *)
(* rate-limited call guard, the per-chunk metadata generator, the file     *)
(* categorizer, the five per-category processors and the dispatcher.       *)
(*                                                                         *)
(* Three specifications share the module:                                  *)
(*   SpecRetry  one call of a function decorated with retry_async          *)
(*   SpecCat    file_processing_pipeline_step1_categorize_files            *)
(*   Spec       process_files and the per-category processors              *)
(* Text is modelled as a sequence of one-character strings, so that        *)
(* str.lower(), the "in" substring test and Path.suffix are computed.      *)
(***************************************************************************)
EXTENDS Integers, Sequences, FiniteSets, TLC

VARIABLES
    \* ---- SpecRetry: one decorated call (retry_async.wrapper) ----
    kind,            \* which function is decorated: "op", "guard", "step5"
    retries,         \* decorator argument
    delay,           \* decorator argument
    attempt,         \* loop variable of wrapper
    last_exception,  \* local of wrapper
    pc,              \* "call", "await", "sleep", "returned", "raised"
    ret,             \* what wrapper returned or raised
    opLog,           \* outcome of each invocation of the underlying operation
    errLog,          \* what the decorated function raised, per failed attempt
    sleeps,          \* the delays slept, in order
    sem_value,       \* free slots of the semaphore handed to the generator
    \* ---- SpecCat and Spec: the categorizer ----
    uploaded_files,     \* the input: a sequence of file names
    categorized_files,  \* category -> sequence of files (positions in the input)
    ci,                 \* SpecCat: the position the loop over the input is at
    \* ---- Spec: process_files and the category processors ----
    hasCallback,        \* whether update_file_status_func was supplied
    dpc,                \* process_files: "start", "run", "returned"
    category,           \* the place in CategoryOrder of the category being run
    fpc,                \* per file task: "none", "extract", "meta", "ingest",
                        \*   "summarize", "complete", "failed"
    ext,                \* per file: how its extraction step ended
    result,             \* per document-like file: what the extraction step
                        \*   handed to process_single_*
    nchunks,            \* per file: the chunks its extraction step produced
    chunk_results,      \* per spreadsheet/CSV file: per chunk, whether its
                        \*   metadata result is a non-empty mapping
    ingRun,             \* per file: its ingest calls still in flight
    ingFailed,          \* per file: whether one of its ingest calls raised
    sinkCalls,          \* per file: the ingest calls made, in launch order
    status,             \* per file: the statuses given to the callback
    processed_files,    \* the running category processor's mapping
    processed_files_summary, \* process_files' mapping
    summarizer_log,     \* per file: its summarizer calls, each with the agent
                        \*   runs it made and what it returned
    \* ---- SpecSem: generator calls sharing one semaphore ----
    sem_capacity,       \* the value the semaphore was made with
    sem_free,           \* the semaphore's free slots (its _value)
    gpc,                \* per call: "call", "wait", "agent", "returned", "raised"
    gattempt,           \* per call: the wrapper's loop variable
    gret                \* per call: what the wrapper returned

retryVars == <<kind, retries, delay, attempt, last_exception, pc, ret,
               opLog, errLog, sleeps, sem_value>>

catVars == <<uploaded_files, categorized_files, ci>>

pipeVars == <<hasCallback, dpc, category, fpc, ext, result, nchunks, chunk_results,
              ingRun, ingFailed,
              sinkCalls, status, processed_files, processed_files_summary,
              summarizer_log>>

semVars == <<sem_capacity, sem_free, gpc, gattempt, gret>>

vars == <<retryVars, catVars, pipeVars, semVars>>

----------------------------------------------------------------------------
(* Text                                                                    *)

UpperChars == <<"A", "B", "C", "D", "E", "F", "G", "H", "I", "J", "K", "L", "M",
                "N", "O", "P", "Q", "R", "S", "T", "U", "V", "W", "X", "Y", "Z">>
LowerChars == <<"a", "b", "c", "d", "e", "f", "g", "h", "i", "j", "k", "l", "m",
                "n", "o", "p", "q", "r", "s", "t", "u", "v", "w", "x", "y", "z">>

\* str.lower() on one character
LowerChar(c) ==
    IF \E i \in 1..Len(UpperChars) : UpperChars[i] = c
    THEN LowerChars[CHOOSE i \in 1..Len(UpperChars) : UpperChars[i] = c]
    ELSE c

\* str.lower()
Lower(s) == [i \in 1..Len(s) |-> LowerChar(s[i])]

\* needle in hay
Contains(hay, needle) ==
    \E i \in 0..(Len(hay) - Len(needle)) :
        SubSeq(hay, i + 1, i + Len(needle)) = needle

----------------------------------------------------------------------------
(* Bounds of the retry specification                                       *)

MaxRetries == 3
MaxDelay == 2

(* The decorator arguments at the two decorated functions                  *)
GuardRetries == 3
GuardDelay == 2
Step5Retries == 3
Step5Delay == 1

\* free slots of the semaphore the caller hands to the generator
SemSlots == 1

(* Failure messages of the underlying operation                            *)
MsgRateLimitExceeded ==
    <<"R", "a", "t", "e", " ", "L", "i", "m", "i", "t", " ",
      "E", "x", "c", "e", "e", "d", "e", "d">>
MsgRateLimitLower == <<"r", "a", "t", "e", " ", "l", "i", "m", "i", "t">>
MsgRateLimitUpper ==
    <<"4", "2", "9", " ", "R", "A", "T", "E", " ", "L", "I", "M", "I", "T">>
MsgNoSpace == <<"r", "a", "t", "e", "l", "i", "m", "i", "t">>
MsgTruncated == <<"r", "a", "t", "e", " ", "l", "i", "m", "i">>
MsgTimeout == <<"t", "i", "m", "e", "o", "u", "t">>
MsgQuota == <<"q", "u", "o", "t", "a">>

\* An outcome of one invocation of the underlying operation (or agent):
\* a value, or an exception of some type with some message.
OpFailures ==
    { [ok |-> FALSE, type |-> "ConnectionError", msg |-> MsgRateLimitExceeded, value |-> {}],
      [ok |-> FALSE, type |-> "ConnectionError", msg |-> MsgRateLimitLower, value |-> {}],
      [ok |-> FALSE, type |-> "ConnectionError", msg |-> MsgRateLimitUpper, value |-> {}],
      [ok |-> FALSE, type |-> "ConnectionError", msg |-> MsgNoSpace, value |-> {}],
      [ok |-> FALSE, type |-> "ConnectionError", msg |-> MsgTruncated, value |-> {}],
      [ok |-> FALSE, type |-> "TimeoutError", msg |-> MsgTimeout, value |-> {}],
      [ok |-> FALSE, type |-> "RateLimitError", msg |-> MsgQuota, value |-> {}] }

\* A value is a mapping, given as its set of <<key, value>> pairs; the agent's
\* structured result always has its keys, so no success value is empty.
OpValues ==
    { {<<"title", "A">>, <<"summary", "sa">>},
      {<<"title", "B">>, <<"summary", "sb">>} }

OpSuccesses ==
    { [ok |-> TRUE, type |-> "", msg |-> <<>>, value |-> v] : v \in OpValues }

OpOutcomes == OpFailures \cup OpSuccesses

\* the empty mapping: return {}
EmptyDict == {}

NoException == [type |-> "None", msg |-> <<>>, at |-> 0]

----------------------------------------------------------------------------
(* handle_rate_limited_request                                             *)

RateLimitNeedle == <<"r", "a", "t", "e", " ", "l", "i", "m", "i", "t">>
RateLimitPrefix ==
    <<"R", "a", "t", "e", " ", "l", "i", "m", "i", "t", " ",
      "e", "x", "c", "e", "e", "d", "e", "d", ":", " ">>
ProcessingPrefix ==
    <<"P", "r", "o", "c", "e", "s", "s", "i", "n", "g", " ",
      "f", "a", "i", "l", "e", "d", ":", " ">>

IsRateLimitMessage_CaseSensitive(msg) == Contains(msg, RateLimitNeedle)

\* "rate limit" in str(e).lower()
IsRateLimitMessage(msg) == Contains(Lower(msg), RateLimitNeedle)

\* What the guard does with the outcome o of func at attempt a:
\* [raised, value, exc]
handle_rate_limited_request(o, a) ==
    IF o.ok
    THEN [raised |-> FALSE, value |-> o.value, exc |-> NoException]
    ELSE IF IsRateLimitMessage(o.msg)
         THEN [raised |-> TRUE, value |-> EmptyDict,
               exc |-> [type |-> "RateLimitError",
                        msg |-> RateLimitPrefix \o o.msg, at |-> a]]
         ELSE [raised |-> TRUE, value |-> EmptyDict,
               exc |-> [type |-> "ProcessingError",
                        msg |-> ProcessingPrefix \o o.msg, at |-> a]]

----------------------------------------------------------------------------
(* file_processing_pipeline_step5_generate_document_metadata_async         *)

step5_Reraise(o, a) ==
    IF o.ok
    THEN [raised |-> FALSE, value |-> o.value, exc |-> NoException]
    ELSE [raised |-> TRUE, value |-> EmptyDict,
          exc |-> [type |-> o.type, msg |-> o.msg, at |-> a]]

\* The body under "async with sem": the agent's result.dict(), or {} when
\* the agent call raised.
step5_generate_document_metadata_async(o, a) ==
    IF o.ok
    THEN [raised |-> FALSE, value |-> o.value, exc |-> NoException]
    ELSE [raised |-> FALSE, value |-> EmptyDict, exc |-> NoException]

\* An undecorated operation handed to retry_async as it is.
plain_operation(o, a) ==
    IF o.ok
    THEN [raised |-> FALSE, value |-> o.value, exc |-> NoException]
    ELSE [raised |-> TRUE, value |-> EmptyDict,
          exc |-> [type |-> o.type, msg |-> o.msg, at |-> a]]

\* await func(*args, **kwargs) for the decorated function
func(k, o, a) ==
    CASE k = "guard" -> handle_rate_limited_request(o, a)
      [] k = "step5" -> step5_generate_document_metadata_async(o, a)
      [] OTHER -> plain_operation(o, a)

----------------------------------------------------------------------------
(* retry_async                                                             *)

RecordException_KeepFirst(last, e) == IF last = NoException THEN e ELSE last

\* last_exception = e
RecordException(last, e) == e

SleepsBeforeRetry_Always(a, n) == TRUE

\* if attempt < retries - 1
SleepsBeforeRetry(a, n) == a < n - 1

LoopContinues_Short(a, n) == a + 1 < n - 1

LoopContinues_Extra(a, n) == a + 1 <= n

\* for attempt in range(retries): is there a next iteration after a
LoopContinues(a, n) == a + 1 < n

CatIdle ==
    /\ uploaded_files = <<>>
    /\ categorized_files = <<>>
    /\ ci = 0

PipeIdle ==
    /\ hasCallback = FALSE
    /\ dpc = "idle"
    /\ category = 0
    /\ fpc = <<>>
    /\ ext = <<>>
    /\ result = <<>>
    /\ nchunks = <<>>
    /\ chunk_results = <<>>
    /\ ingRun = <<>>
    /\ ingFailed = <<>>
    /\ sinkCalls = <<>>
    /\ status = <<>>
    /\ processed_files = <<>>
    /\ processed_files_summary = <<>>
    /\ summarizer_log = <<>>

SemIdle ==
    /\ sem_capacity = 0
    /\ sem_free = 0
    /\ gpc = <<>>
    /\ gattempt = <<>>
    /\ gret = <<>>

RetryInit ==
    /\ kind \in {"op", "guard", "step5"}
    /\ retries \in 1..MaxRetries
    /\ delay \in 1..MaxDelay
    /\ kind = "guard" => retries = GuardRetries /\ delay = GuardDelay
    /\ kind = "step5" => retries = Step5Retries /\ delay = Step5Delay
    /\ attempt = 0
    /\ last_exception = NoException
    /\ pc = "call"
    /\ ret = [raised |-> FALSE, value |-> EmptyDict, exc |-> NoException]
    /\ opLog = <<>>
    /\ errLog = <<>>
    /\ sleeps = <<>>
    /\ sem_value = SemSlots
    /\ CatIdle
    /\ PipeIdle
    /\ SemIdle

\* wrapper enters func; the generator takes its semaphore slot first
wrapper_invoke ==
    /\ pc = "call"
    /\ IF kind = "step5"
       THEN sem_value > 0 /\ sem_value' = sem_value - 1
       ELSE UNCHANGED sem_value
    /\ pc' = "await"
    /\ UNCHANGED <<kind, retries, delay, attempt, last_exception, ret,
                   opLog, errLog, sleeps>>

\* the underlying call ends with outcome o; func returns or raises, and
\* wrapper runs on to its next await, its return or its raise
wrapper_resume ==
    \E o \in OpOutcomes :
        /\ pc = "await"
        /\ opLog' = Append(opLog, o)
        /\ sem_value' = IF kind = "step5" THEN sem_value + 1 ELSE sem_value
        /\ LET r == func(kind, o, attempt + 1)
               e == RecordException(last_exception, r.exc)
           IN IF ~r.raised
              THEN /\ pc' = "returned"
                   /\ ret' = r
                   /\ UNCHANGED <<attempt, last_exception, errLog>>
              ELSE /\ errLog' = Append(errLog, r.exc)
                   /\ last_exception' = e
                   /\ IF SleepsBeforeRetry(attempt, retries)
                      THEN pc' = "sleep" /\ UNCHANGED <<attempt, ret>>
                      ELSE IF LoopContinues(attempt, retries)
                           THEN /\ pc' = "call"
                                /\ attempt' = attempt + 1
                                /\ UNCHANGED ret
                           ELSE /\ pc' = "raised"
                                /\ ret' = [raised |-> TRUE, value |-> EmptyDict,
                                           exc |-> e]
                                /\ UNCHANGED attempt
        /\ UNCHANGED <<kind, retries, delay, sleeps>>

\* await asyncio.sleep(delay) ends; the loop goes on, or is over
wrapper_sleep ==
    /\ pc = "sleep"
    /\ sleeps' = Append(sleeps, delay)
    /\ IF LoopContinues(attempt, retries)
       THEN pc' = "call" /\ attempt' = attempt + 1 /\ UNCHANGED ret
       ELSE /\ pc' = "raised"
            /\ ret' = [raised |-> TRUE, value |-> EmptyDict,
                       exc |-> last_exception]
            /\ UNCHANGED attempt
    /\ UNCHANGED <<kind, retries, delay, last_exception, opLog, errLog,
                   sem_value>>

RetryNext ==
    \/ wrapper_invoke /\ UNCHANGED <<catVars, pipeVars, semVars>>
    \/ wrapper_resume /\ UNCHANGED <<catVars, pipeVars, semVars>>
    \/ wrapper_sleep /\ UNCHANGED <<catVars, pipeVars, semVars>>

SpecRetry == RetryInit /\ [][RetryNext]_vars

----------------------------------------------------------------------------
(* file_processing_pipeline_step1_categorize_files                         *)

\* FILE_CATEGORIES, a dict: its keys in insertion order, and its lists
CategoryOrder == <<"pdf", "image", "excel", "csv", "other">>

FILE_CATEGORIES ==
    [c \in {"pdf", "image", "excel", "csv", "other"} |->
        CASE c = "pdf" -> <<<<"p", "d", "f">>, <<"d", "o", "c", "x">>, <<"d", "o", "c">>, <<"o", "d", "t">>, <<"p", "p", "t", "x">>, <<"p", "p", "t">>>>
          [] c = "image" -> <<<<"p", "n", "g">>, <<"j", "p", "g">>, <<"j", "p", "e", "g">>>>
          [] c = "excel" -> <<<<"x", "l", "s", "x">>, <<"x", "l", "s">>>>
          [] c = "csv" -> <<<<"c", "s", "v">>>>
          [] c = "other" -> <<<<"t", "x", "t">>, <<"j", "s", "o", "n">>, <<"x", "m", "l">>>>]

\* str.rfind(c): the last position of c in s (from 1), 0 when there is none
RFind(s, c) ==
    IF \E i \in 1..Len(s) : s[i] = c
    THEN CHOOSE i \in 1..Len(s) : s[i] = c /\ \A j \in (i + 1)..Len(s) : s[j] # c
    ELSE 0

\* Path(name).suffix for a name without separators: from the last dot on,
\* when that dot is neither the first nor the last character
Suffix(name) ==
    LET i == RFind(name, ".")
    IN IF 1 < i /\ i < Len(name) THEN SubSeq(name, i, Len(name)) ELSE <<>>

\* str.lstrip('.')
RECURSIVE LStripDots(_)
LStripDots(s) ==
    IF s # <<>> /\ Head(s) = "." THEN LStripDots(Tail(s)) ELSE s

file_ext_NoLower(name) == LStripDots(Suffix(name))

\* file_ext = Path(file.name).suffix.lower().lstrip('.')
file_ext(name) == LStripDots(Lower(Suffix(name)))

\* file_ext in extensions
InList(x, list) == \E k \in 1..Len(list) : list[k] = x

\* the inner loop with its break: the first category, in the order of the
\* table's keys, whose list holds the extension; "" when the loop runs out
FirstCategory(fext) ==
    IF \E k \in 1..Len(CategoryOrder) : InList(fext, FILE_CATEGORIES[CategoryOrder[k]])
    THEN CategoryOrder[CHOOSE k \in 1..Len(CategoryOrder) :
             /\ InList(fext, FILE_CATEGORIES[CategoryOrder[k]])
             /\ \A j \in 1..(k - 1) : ~InList(fext, FILE_CATEGORIES[CategoryOrder[j]])]
    ELSE ""

\* categorized_files = {category: [] for category in FILE_CATEGORIES.keys()}
EmptyBuckets == [c \in DOMAIN FILE_CATEGORIES |-> <<>>]

categorize_one_Prepend(cf, files, i) ==
    LET c == FirstCategory(file_ext(files[i]))
    IN IF c = "" THEN cf ELSE [cf EXCEPT ![c] = <<i>> \o @]

\* one iteration of the outer loop, for the file at position i
categorize_one(cf, files, i) ==
    LET c == FirstCategory(file_ext(files[i]))
    IN IF c = "" THEN cf ELSE [cf EXCEPT ![c] = Append(@, i)]

\* the outer loop from position i on
RECURSIVE categorize_from(_, _, _)
categorize_from(cf, files, i) ==
    IF i > Len(files) THEN cf
    ELSE categorize_from(categorize_one(cf, files, i), files, i + 1)

file_processing_pipeline_step1_categorize_files(files) ==
    categorize_from(EmptyBuckets, files, 1)

(* Inputs of the categorizer specification                                 *)
MaxCatFiles == 2

CatNames ==
    { <<"a", ".", "p", "d", "f">>,
      <<"A", ".", "P", "D", "F">>,
      <<"b", ".", "D", "o", "c", "x">>,
      <<"c", ".", "p", "n", "g">>,
      <<"d", ".", "x", "l", "s", "x">>,
      <<"e", ".", "c", "s", "v">>,
      <<"f", ".", "t", "x", "t">>,
      <<"g", ".", "e", "x", "e">>,
      <<"n", "o", "e", "x", "t">>,
      <<".", "p", "d", "f">>,
      <<"h", ".", "t", "a", "r", ".", "g", "z">>,
      <<"i", ".", "c", "s", "v", ".", "j", "s", "o", "n">> }

RECURSIVE SeqsUpTo(_, _)
SeqsUpTo(S, n) ==
    IF n = 0 THEN {<<>>}
    ELSE LET shorter == SeqsUpTo(S, n - 1)
         IN shorter \cup {Append(q, x) : q \in {r \in shorter : Len(r) = n - 1}, x \in S}

RetryIdle ==
    /\ kind = "op"
    /\ retries = 1
    /\ delay = 1
    /\ attempt = 0
    /\ last_exception = NoException
    /\ pc = "idle"
    /\ ret = [raised |-> FALSE, value |-> EmptyDict, exc |-> NoException]
    /\ opLog = <<>>
    /\ errLog = <<>>
    /\ sleeps = <<>>
    /\ sem_value = SemSlots

CatInit ==
    /\ uploaded_files \in SeqsUpTo(CatNames, MaxCatFiles)
    /\ categorized_files = EmptyBuckets
    /\ ci = 1
    /\ RetryIdle
    /\ PipeIdle
    /\ SemIdle

\* for file in uploaded_files: one iteration
categorize_step ==
    /\ ci <= Len(uploaded_files)
    /\ categorized_files' = categorize_one(categorized_files, uploaded_files, ci)
    /\ ci' = ci + 1
    /\ UNCHANGED <<uploaded_files, retryVars, pipeVars, semVars>>

CatNext == categorize_step

SpecCat == CatInit /\ [][CatNext]_vars

----------------------------------------------------------------------------
(* process_files and the per-category processors                           *)

(* Bounds of the pipeline specification                                    *)
MaxFiles == 2
MaxChunks == 2

PipeNames ==
    { <<"a", ".", "p", "d", "f">>,
      <<"b", ".", "d", "o", "c">>,
      <<"c", ".", "p", "n", "g">>,
      <<"d", ".", "x", "l", "s", "x">>,
      <<"e", ".", "x", "l", "s">>,
      <<"f", ".", "c", "s", "v">>,
      <<"g", ".", "t", "x", "t">>,
      <<"h", ".", "e", "x", "e">> }

\* The five processors are two bodies: process_single_pdf, _image and _file
\* differ in the file_type tag only, process_single_excel and _csv likewise.
IsDocumentLike(c) == c \in {"pdf", "image", "other"}
IsTabular(c) == c \in {"excel", "csv"}

Pos == 1..Len(uploaded_files)

\* the category whose processor runs the file at position i ("" for none)
CategoryOfFile(i) ==
    LET cs == {c \in DOMAIN categorized_files : InList(i, categorized_files[c])}
    IN IF cs = {} THEN "" ELSE CHOOSE c \in cs : TRUE

FilesOf(k) == {i \in Pos : InList(i, categorized_files[CategoryOrder[k]])}

(* Status strings handed to update_file_status_func; the pictograph each   *)
(* starts with is written as one character, "[search]", "[check]",         *)
(* "[cross]".                                                              *)
StatusProcessingExcel == <<"[search]", " ">> \o <<"P", "r", "o", "c", "e", "s", "s", "i", "n", "g", " ", "E", "x", "c", "e", "l", " ", "f", "i", "l", "e", ".", ".", ".">>
StatusProcessingCsv == <<"[search]", " ">> \o <<"P", "r", "o", "c", "e", "s", "s", "i", "n", "g", " ", "C", "S", "V", " ", "f", "i", "l", "e", ".", ".", ".">>
StatusComplete == <<"[check]", " ">> \o <<"P", "r", "o", "c", "e", "s", "s", "i", "n", "g", " ", "c", "o", "m", "p", "l", "e", "t", "e">>
StatusError == <<"[cross]", " ">> \o <<"E", "r", "r", "o", "r", ":", " ">>

\* str(e) or result.error in an error status: some text
ErrorDetail == <<"d", "e", "t", "a", "i", "l">>

\* the text of a status of a file of category c, from its code
StatusText(code, c) ==
    CASE code = "processing" /\ c = "excel" -> StatusProcessingExcel
      [] code = "processing" -> StatusProcessingCsv
      [] code = "complete" -> StatusComplete
      [] OTHER -> StatusError \o ErrorDetail

Report_Silent(st, i, code) == st

\* if update_file_status_func: update_file_status_func(file.name, text)
Report(st, i, code) ==
    IF hasCallback THEN [st EXCEPT ![i] = Append(@, code)] ELSE st

(* DocumentSummaryMetadata                                                 *)
AgentSummary ==
    [summary |-> "overall", key_points |-> <<"k1">>, document_type |-> "report",
     themes |-> <<"t1">>, all_hashtags |-> <<"#h">>, key_questions |-> <<"q1">>]

\* the except clause of
\* file_processing_pipeline_generate_document_metadata_overall_summary
FallbackSummary ==
    [summary |-> "Error generating summary", key_points |-> <<>>,
     document_type |-> "unknown", themes |-> <<>>, all_hashtags |-> <<>>,
     key_questions |-> <<>>]

\* one call of the summarizer: the agent's result, or the fallback
file_processing_pipeline_generate_document_metadata_overall_summary(agentOk) ==
    IF agentOk THEN AgentSummary ELSE FallbackSummary

summarizer_agent_runs_Retried(agentOk) ==
    IF agentOk THEN <<TRUE>> ELSE <<FALSE, FALSE, FALSE>>

\* the runs of document_summary_agent one summarizer call makes, each with
\* whether it succeeded: "result = await document_summary_agent.run(...)",
\* in no loop and under no decorator
summarizer_agent_runs(agentOk) == <<agentOk>>

summarizer_raises_OnFailure(agentOk) == ~agentOk

\* whether one summarizer call raises to its caller: "except Exception"
\* returns the fallback, so it never does
summarizer_raises(agentOk) == FALSE

TotalChunks_Ingested(produced, ingested) == ingested

\* total_chunks=len(result.document_info) / total_chunks=len(chunks)
TotalChunks(produced, ingested) == produced

FileSummaryOf_Shared(i, sm) ==
    [file_name |-> uploaded_files[i],
     total_chunks |-> nchunks[i] + Cardinality(DOMAIN processed_files),
     summary |-> sm.summary,
     key_points |-> sm.key_points,
     document_type |-> sm.document_type,
     metadata |-> [themes |-> sm.themes, all_hashtags |-> sm.all_hashtags,
                   key_questions |-> sm.key_questions],
     by |-> i]

\* FileSummary(...); "by" is the identity of the file object it was built
\* for. processing_method and session_id are copied from the configuration,
\* which no step changes; the configuration of a run carries a session id
\* (FileSummary.session_id is a str: with the default session_id=None of
\* ProcessingConfig the constructor would raise into the task's except).
FileSummaryOf(i, sm) ==
    [file_name |-> uploaded_files[i],
     total_chunks |-> TotalChunks(nchunks[i], Len(sinkCalls[i])),
     summary |-> sm.summary,
     key_points |-> sm.key_points,
     document_type |-> sm.document_type,
     metadata |-> [themes |-> sm.themes, all_hashtags |-> sm.all_hashtags,
                   key_questions |-> sm.key_questions],
     by |-> i]

DictSet_Replace(d, key, value) == [n \in {key} |-> value]

\* d[key] = value
DictSet(d, key, value) ==
    [n \in DOMAIN d \cup {key} |-> IF n = key THEN value ELSE d[n]]

DictUpdate_Assign(d, e) == e

\* d.update(e)
DictUpdate(d, e) ==
    [n \in DOMAIN d \cup DOMAIN e |-> IF n \in DOMAIN e THEN e[n] ELSE d[n]]

EmptyMapping == <<>>

\* the next non-empty category after place k in the order of the table, 0
\* when none is left: "for category, files in ...: if not files: continue"
NextCategory(cf, k) ==
    IF \E j \in (k + 1)..Len(CategoryOrder) : cf[CategoryOrder[j]] # <<>>
    THEN CHOOSE j \in (k + 1)..Len(CategoryOrder) :
             /\ cf[CategoryOrder[j]] # <<>>
             /\ \A m \in (k + 1)..(j - 1) : cf[CategoryOrder[m]] = <<>>
    ELSE 0

(* The extraction step of a document-like file,                            *)
(* file_processing_pipeline_step4_process_document: the body of its try    *)
(* is left out of the source ("Implementation details here"), so what it   *)
(* does is any of: fall through as written (the function returns None),    *)
(* raise (the except clause returns a failed ProcessingResult), or return  *)
(* a ProcessingResult of its own: a failed one without document_info, or   *)
(* a successful one with its list of DocumentInfo: an empty list, one of   *)
(* one chunk or one of MaxChunks chunks.                                   *)
(* n is len(document_info), -1 for None.                                   *)
ExtractBodyOutcomes ==
    {[how |-> "falls_through", success |-> FALSE, n |-> -1],
     [how |-> "raises", success |-> FALSE, n |-> -1],
     [how |-> "returns", success |-> FALSE, n |-> -1]}
    \cup {[how |-> "returns", success |-> TRUE, n |-> m] : m \in {0, 1, MaxChunks}}

\* what step4 hands back for a body outcome: None, or a ProcessingResult
file_processing_pipeline_step4_process_document(b) ==
    CASE b.how = "falls_through" ->
             [isNone |-> TRUE, success |-> FALSE, n |-> -1, error |-> FALSE]
      [] b.how = "raises" ->
             [isNone |-> FALSE, success |-> FALSE, n |-> -1, error |-> TRUE]
      [] OTHER ->
             [isNone |-> FALSE, success |-> b.success, n |-> b.n,
              error |-> ~b.success]

\* no value handed over yet
NoResult == [isNone |-> FALSE, success |-> FALSE, n |-> -1, error |-> FALSE,
             pending |-> TRUE]

ResultUsable_SuccessOnly(r) == r.success

\* if result.success and result.document_info
ResultUsable(r) == r.success /\ r.n >= 1

\* await asyncio.gather(*ingests) returns once every ingest call returned
gather_returns_FirstCompleted(running, launched) == running < launched

gather_returns(running, launched) == running = 0

\* the ingest calls of a document-like file: one per DocumentInfo, in the
\* list's order.  DocumentInfo k is written k: the call carries its index
\* field, its text (chunk) and its own title, hashtags, questions, summary
\* and metadata (meta), with the processor's file_type.
DocumentCalls_DropLast(n, tag) ==
    [k \in 1..(n - 1) |->
        [index |-> k, file_type |-> tag, chunk |-> k, meta |-> k]]

DocumentCalls(n, tag) ==
    [k \in 1..n |-> [index |-> k, file_type |-> tag, chunk |-> k, meta |-> k]]

\* the chunks argument of the summarizer call: the text of every chunk, in
\* order ([doc.text_chunk for doc in result.document_info], or
\* [chunk["text"] for chunk in chunks]), whatever was ingested
summarizer_chunks(n) == [k \in 1..n |-> k]

\* The inputs of process_files: a batch of files and, or not, a status
\* callback; a batch run without callback is one file shorter.
PipeInit ==
    /\ uploaded_files \in SeqsUpTo(PipeNames, MaxFiles)
    /\ hasCallback \in BOOLEAN
    /\ ~hasCallback => Len(uploaded_files) < MaxFiles
    /\ categorized_files = <<>>
    /\ ci = 0
    /\ dpc = "start"
    /\ category = 0
    /\ fpc = [i \in Pos |-> "none"]
    /\ ext = [i \in Pos |-> "pending"]
    /\ result = [i \in Pos |-> NoResult]
    /\ nchunks = [i \in Pos |-> 0]
    /\ chunk_results = [i \in Pos |-> <<>>]
    /\ ingRun = [i \in Pos |-> 0]
    /\ ingFailed = [i \in Pos |-> FALSE]
    /\ sinkCalls = [i \in Pos |-> <<>>]
    /\ status = [i \in Pos |-> <<>>]
    /\ processed_files = EmptyMapping
    /\ processed_files_summary = EmptyMapping
    /\ summarizer_log = [i \in Pos |-> <<>>]
    /\ RetryIdle
    /\ SemIdle

\* process_<category>_files up to its gather: every file of category k gets
\* its task, which runs to its first await (a spreadsheet or CSV task
\* reports "processing" on the way)
EnterCategory(cf, k) ==
    LET c == CategoryOrder[k]
        mine == {i \in Pos : InList(i, cf[c])}
    IN /\ category' = k
       /\ processed_files' = EmptyMapping
       /\ fpc' = [i \in Pos |-> IF i \in mine THEN "extract" ELSE fpc[i]]
       /\ status' = [i \in Pos |->
                        IF i \in mine /\ IsTabular(c) /\ hasCallback
                        THEN Append(status[i], "processing") ELSE status[i]]

\* process_files, from its call to its first await (or to its return, when
\* every category is empty)
process_files_start ==
    /\ dpc = "start"
    /\ categorized_files' =
           file_processing_pipeline_step1_categorize_files(uploaded_files)
    /\ LET k == NextCategory(categorized_files', 0)
       IN IF k = 0
          THEN /\ dpc' = "returned"
               /\ UNCHANGED <<category, processed_files, fpc, status>>
          ELSE /\ dpc' = "run"
               /\ EnterCategory(categorized_files', k)
    /\ UNCHANGED <<uploaded_files, ci, hasCallback, ext, nchunks, chunk_results,
                   ingRun, ingFailed, sinkCalls, processed_files_summary,
                   summarizer_log,
                   result, retryVars, semVars>>

processor_returns_FirstCompleted(f, mine) ==
    \E i \in mine : f[i] \in {"complete", "failed"}

\* await asyncio.gather(*[process_single_*(file) for file in files]) returns
\* once every task of the category has ended
processor_returns(f, mine) ==
    \A i \in mine : f[i] \in {"complete", "failed"}

\* the gather over the files of the running category returns; process_files
\* merges the processor's mapping and goes on to the next non-empty category
category_done ==
    /\ dpc = "run"
    /\ processor_returns(fpc, FilesOf(category))
    /\ processed_files_summary' = DictUpdate(processed_files_summary, processed_files)
    /\ LET k == NextCategory(categorized_files, category)
       IN IF k = 0
          THEN /\ dpc' = "returned"
               /\ UNCHANGED <<category, processed_files, fpc, status>>
          ELSE /\ dpc' = "run"
               /\ EnterCategory(categorized_files, k)
    /\ UNCHANGED <<uploaded_files, categorized_files, ci, hasCallback, ext,
                   nchunks, chunk_results, ingRun, ingFailed, sinkCalls,
                   summarizer_log,
                   result, retryVars, semVars>>

task_except_CancelSiblings(f, i) ==
    [j \in DOMAIN f |->
        IF j = i \/ f[j] \in {"extract", "meta", "ingest", "summarize"}
        THEN "failed" ELSE f[j]]

\* "except Exception as e" at the end of a file's task: the task ends, the
\* other tasks are left as they are
task_except(f, i) == [f EXCEPT ![i] = "failed"]

\* process_single_pdf / _image / _file: the extraction step returns
extract_done(i) ==
    /\ fpc[i] = "extract"
    /\ IsDocumentLike(CategoryOfFile(i))
    /\ \E b \in ExtractBodyOutcomes :
         LET r == file_processing_pipeline_step4_process_document(b)
         IN /\ ext' = [ext EXCEPT ![i] = IF b.how = "returns" /\ ResultUsable(r)
                                        THEN "ok" ELSE b.how]
            /\ result' = [result EXCEPT ![i] =
                             [isNone |-> r.isNone, success |-> r.success,
                              n |-> r.n, error |-> r.error, pending |-> FALSE]]
            /\ IF r.isNone
               THEN \* result.success raises AttributeError
                    /\ fpc' = task_except(fpc, i)
                    /\ status' = Report(status, i, "error")
                    /\ UNCHANGED <<nchunks, ingRun, sinkCalls>>
               ELSE IF ResultUsable(r)
               THEN \* one ingest call per DocumentInfo, gathered (a gather
                    \* of no call returns at once)
                    LET calls == DocumentCalls(r.n, CategoryOfFile(i))
                    IN /\ nchunks' = [nchunks EXCEPT ![i] = r.n]
                       /\ sinkCalls' = [sinkCalls EXCEPT ![i] = calls]
                       /\ ingRun' = [ingRun EXCEPT ![i] = Len(calls)]
                       /\ fpc' = [fpc EXCEPT ![i] = IF Len(calls) = 0
                                                    THEN "summarize"
                                                    ELSE "ingest"]
                       /\ UNCHANGED status
               ELSE \* the else branch: report result.error
                    /\ fpc' = [fpc EXCEPT ![i] = "failed"]
                    /\ status' = Report(status, i, "error")
                    /\ UNCHANGED <<nchunks, ingRun, sinkCalls>>
    /\ UNCHANGED <<uploaded_files, categorized_files, ci, hasCallback, dpc,
                   category, chunk_results, ingFailed, processed_files,
                   processed_files_summary, summarizer_log,
                   retryVars, semVars>>

\* The rows of the frame a spreadsheet or CSV file parses to are the file's
\* own: the batch's files are these, by the name's first letter.
Rows(name) ==
    CASE Head(name) = "d" -> MaxChunks
      [] Head(name) = "e" -> 1
      [] OTHER -> 0

\* the tabular parse of a spreadsheet or CSV file: pd.read_excel / read_csv
\* in the thread pool raises, or gives the frame of the file's rows
ReadOutcomes(name) ==
    {[how |-> "raises", n |-> 0], [how |-> "returns", n |-> Rows(name)]}

\* process_single_excel / _csv: the parse returns; one chunk per row, and
\* the gather over the per-chunk metadata calls starts (with no row, both
\* gathers return at once and the summarizer is called)
read_done(i) ==
    /\ fpc[i] = "extract"
    /\ IsTabular(CategoryOfFile(i))
    /\ \E b \in ReadOutcomes(uploaded_files[i]) :
         /\ ext' = [ext EXCEPT ![i] = IF b.how = "returns" THEN "ok" ELSE b.how]
         /\ IF b.how = "raises"
            THEN /\ fpc' = task_except(fpc, i)
                 /\ status' = Report(status, i, "error")
                 /\ UNCHANGED nchunks
            ELSE /\ nchunks' = [nchunks EXCEPT ![i] = b.n]
                 /\ fpc' = [fpc EXCEPT ![i] = IF b.n = 0 THEN "summarize" ELSE "meta"]
                 /\ UNCHANGED status
    /\ UNCHANGED <<uploaded_files, categorized_files, ci, hasCallback, dpc,
                   category, chunk_results, ingRun, ingFailed, sinkCalls,
                   processed_files, processed_files_summary, summarizer_log,
                   result, retryVars, semVars>>

\* the ingest calls of a spreadsheet or CSV file: for idx, (chunk, result)
\* in enumerate(zip(chunks, chunk_results)) if result.  v[k] tells whether
\* the metadata result of chunk k is non-empty; a call carries idx (counted
\* from 0 over all chunks), the text of its chunk and the fields of the
\* metadata result zipped with it (meta), with the processor's file_type.
TabularCalls_Renumbered(v, tag) ==
    LET NonEmpty(k) == v[k]
        kept == SelectSeq([k \in 1..Len(v) |-> k], NonEmpty)
    IN [m \in 1..Len(kept) |->
          [index |-> m - 1, file_type |-> tag, chunk |-> kept[m],
           meta |-> kept[m]]]

TabularCalls(v, tag) ==
    LET NonEmpty(k) == v[k]
        kept == SelectSeq([k \in 1..Len(v) |-> k], NonEmpty)
    IN [m \in 1..Len(kept) |->
          [index |-> kept[m] - 1, file_type |-> tag, chunk |-> kept[m],
           meta |-> kept[m]]]

\* the gather over the per-chunk metadata calls returns chunk_results (each
\* call gives the agent's mapping or, the agent failing, the empty one), and
\* the ingest calls start
meta_done(i) ==
    /\ fpc[i] = "meta"
    /\ \E v \in [1..nchunks[i] -> BOOLEAN] :
         LET calls == TabularCalls(v, CategoryOfFile(i))
         IN /\ chunk_results' = [chunk_results EXCEPT ![i] = v]
            /\ sinkCalls' = [sinkCalls EXCEPT ![i] = calls]
            /\ ingRun' = [ingRun EXCEPT ![i] = Len(calls)]
            /\ fpc' = [fpc EXCEPT ![i] = IF Len(calls) = 0 THEN "summarize"
                                         ELSE "ingest"]
    /\ UNCHANGED <<uploaded_files, categorized_files, ci, hasCallback, dpc,
                   category, ext, nchunks, ingFailed, status, processed_files,
                   processed_files_summary, summarizer_log,
                   result, retryVars, semVars>>

\* one ingest call of file i ends.  While the file's task waits in the
\* gather: the last call returning lets the gather return and the summarizer
\* be called; the first call raising makes the gather raise into the task's
\* except clause, the file's other calls running on.
ingest_done(i) ==
    /\ ingRun[i] > 0
    /\ \E ok \in BOOLEAN :
         /\ ingRun' = [ingRun EXCEPT ![i] = @ - 1]
         /\ IF fpc[i] = "ingest" /\ ok
            THEN /\ fpc' = [fpc EXCEPT ![i] =
                              IF gather_returns(ingRun[i] - 1, Len(sinkCalls[i]))
                              THEN "summarize" ELSE "ingest"]
                 /\ UNCHANGED <<ingFailed, status>>
            ELSE IF fpc[i] = "ingest"
            THEN /\ ingFailed' = [ingFailed EXCEPT ![i] = TRUE]
                 /\ fpc' = task_except(fpc, i)
                 /\ status' = Report(status, i, "error")
            ELSE UNCHANGED <<ingFailed, fpc, status>>
    /\ UNCHANGED <<uploaded_files, categorized_files, ci, hasCallback, dpc,
                   category, ext, nchunks, chunk_results, sinkCalls,
                   processed_files, processed_files_summary, summarizer_log,
                   result, retryVars, semVars>>

\* the summarizer returns; the FileSummary is stored and "complete" reported
\* (were the summarizer to raise, the task's except clause would run)
summarize_done(i) ==
    /\ fpc[i] = "summarize"
    /\ \E agentOk \in BOOLEAN :
         LET sm == file_processing_pipeline_generate_document_metadata_overall_summary(agentOk)
             entry == [runs |-> summarizer_agent_runs(agentOk), ret |-> sm,
                       chunks |-> summarizer_chunks(nchunks[i])]
         IN /\ summarizer_log' = [summarizer_log EXCEPT ![i] = Append(@, entry)]
            /\ IF summarizer_raises(agentOk)
               THEN /\ fpc' = task_except(fpc, i)
                    /\ status' = Report(status, i, "error")
                    /\ UNCHANGED processed_files
               ELSE /\ processed_files' =
                          DictSet(processed_files, uploaded_files[i],
                                  FileSummaryOf(i, sm))
                    /\ status' = Report(status, i, "complete")
                    /\ fpc' = [fpc EXCEPT ![i] = "complete"]
    /\ UNCHANGED <<uploaded_files, categorized_files, ci, hasCallback, dpc,
                   category, ext, nchunks, chunk_results, ingRun, ingFailed,
                   sinkCalls, processed_files_summary, result, retryVars,
                   semVars>>

PipeNext ==
    \/ process_files_start
    \/ category_done
    \/ \E i \in Pos : extract_done(i)
    \/ \E i \in Pos : read_done(i)
    \/ \E i \in Pos : meta_done(i)
    \/ \E i \in Pos : ingest_done(i)
    \/ \E i \in Pos : summarize_done(i)

Spec == PipeInit /\ [][PipeNext]_vars

\* The same program on the batches that are one file short of the longest:
\* what one file's task does is looked at here, with and without callback.
PipeInitShort ==
    /\ PipeInit
    /\ Len(uploaded_files) < MaxFiles

SpecShort == PipeInitShort /\ [][PipeNext]_vars

\* The event loop runs every callback that is ready, and every external call
\* (extraction, parse, per-chunk metadata, ingest, summarizer) returns or
\* raises in the end: as long as a step stays possible, a step is taken.
\* (Fairness for each step apart asks for more and gives no more: no step
\* of the program can be taken twice.)
Fairness == WF_vars(PipeNext)

SpecFair == PipeInit /\ [][PipeNext]_vars /\ Fairness

----------------------------------------------------------------------------
(* Calls of file_processing_pipeline_step5_generate_document_metadata_async *)
(* that were handed the same semaphore, run together by a gather           *)

(* Bounds of the semaphore specification                                   *)
MaxCalls == 3
MaxCapacity == 2

\* What the agent run of one call ends with: a failure or a value
AgentOutcomes ==
    { [ok |-> FALSE, type |-> "TimeoutError", msg |-> MsgTimeout, value |-> {}] }
    \cup OpSuccesses

sem_acquire_Always(free) == TRUE

\* asyncio.Semaphore.acquire takes a slot at once when one is free
sem_acquire(free) == free > 0

sem_release_OnSuccess(free, ok) == IF ok THEN free + 1 ELSE free

\* leaving "async with sem", by return or by exception: release()
sem_release(free, ok) == free + 1

SemInit ==
    /\ sem_capacity \in 1..MaxCapacity
    /\ sem_free = sem_capacity
    /\ \E n \in 1..MaxCalls :
          /\ gpc = [k \in 1..n |-> "call"]
          /\ gattempt = [k \in 1..n |-> 0]
          /\ gret = [k \in 1..n |-> EmptyDict]
    /\ RetryIdle
    /\ CatIdle
    /\ PipeIdle

\* wrapper calls the generator, which comes to "async with sem": it takes a
\* slot and runs the agent, or waits for one
generator_enter(k) ==
    /\ gpc[k] = "call"
    /\ IF sem_acquire(sem_free)
       THEN /\ sem_free' = sem_free - 1
            /\ gpc' = [gpc EXCEPT ![k] = "agent"]
       ELSE /\ gpc' = [gpc EXCEPT ![k] = "wait"]
            /\ UNCHANGED sem_free
    /\ UNCHANGED <<sem_capacity, gattempt, gret, retryVars, catVars, pipeVars>>

\* a waiting call is given a freed slot
generator_wake(k) ==
    /\ gpc[k] = "wait"
    /\ sem_acquire(sem_free)
    /\ sem_free' = sem_free - 1
    /\ gpc' = [gpc EXCEPT ![k] = "agent"]
    /\ UNCHANGED <<sem_capacity, gattempt, gret, retryVars, catVars, pipeVars>>

\* the agent run of call k ends with outcome o: the generator leaves
\* "async with sem" and returns (or raises, and wrapper goes round its loop)
generator_resume(k) ==
    /\ gpc[k] = "agent"
    /\ \E o \in AgentOutcomes :
         LET r == step5_generate_document_metadata_async(o, gattempt[k] + 1)
         IN /\ sem_free' = sem_release(sem_free, o.ok)
            /\ IF ~r.raised
               THEN /\ gpc' = [gpc EXCEPT ![k] = "returned"]
                    /\ gret' = [gret EXCEPT ![k] = r.value]
                    /\ UNCHANGED gattempt
               ELSE IF LoopContinues(gattempt[k], Step5Retries)
               THEN /\ gpc' = [gpc EXCEPT ![k] = "call"]
                    /\ gattempt' = [gattempt EXCEPT ![k] = @ + 1]
                    /\ UNCHANGED gret
               ELSE /\ gpc' = [gpc EXCEPT ![k] = "raised"]
                    /\ UNCHANGED <<gattempt, gret>>
    /\ UNCHANGED <<sem_capacity, retryVars, catVars, pipeVars>>

SemNext ==
    \/ \E k \in DOMAIN gpc : generator_enter(k)
    \/ \E k \in DOMAIN gpc : generator_wake(k)
    \/ \E k \in DOMAIN gpc : generator_resume(k)

SpecSem == SemInit /\ [][SemNext]_vars

----------------------------------------------------------------------------
(* Claims about the retry wrapper, the guard and the generator             *)

Terminated == pc \in {"returned", "raised"}

\* C1: with the operation failing k times and then succeeding, k + 1 <= N,
\* the wrapper returns the success value after exactly k + 1 invocations: a
\* success is always the last invocation and is what the wrapper returned,
\* and the wrapper never gives up before the N-th invocation.
C1_RetrySuccess ==
    kind = "op" =>
        /\ Len(opLog) <= retries
        /\ \A j \in 1..Len(opLog) :
               opLog[j].ok =>
                   /\ j = Len(opLog)
                   /\ pc = "returned"
                   /\ ~ret.raised
                   /\ ret.value = opLog[j].value
        /\ pc = "returned" => Len(opLog) >= 1 /\ opLog[Len(opLog)].ok
        /\ pc = "raised" => Len(opLog) = retries

C1_Witness ==
    /\ kind = "op"
    /\ retries = 3
    /\ pc = "returned"
    /\ Len(opLog) = 3
    /\ ~opLog[1].ok /\ ~opLog[2].ok /\ opLog[3].ok

\* C2: when each of the first N invocations fails, the wrapper invokes the
\* operation exactly N times and raises the N-th attempt's exception itself.
C2_RetryExhausted ==
    kind = "op" =>
        /\ (Len(opLog) = retries /\ \A j \in 1..retries : ~opLog[j].ok)
               => pc = "raised"
        /\ pc = "raised" =>
               /\ Len(opLog) = retries
               /\ ret.raised
               /\ ret.exc # NoException
               /\ ret.exc = [type |-> opLog[retries].type,
                             msg |-> opLog[retries].msg,
                             at |-> retries]

C2_Witness ==
    /\ kind = "op"
    /\ retries = 3
    /\ pc = "raised"
    /\ opLog[1].msg # opLog[3].msg
    /\ ret.exc.msg = opLog[3].msg

SameLetterAnyCase(c, d) ==
    \/ c = d
    \/ \E i \in 1..Len(UpperChars) : {c, d} = {UpperChars[i], LowerChars[i]}

ContainsAnyCase(hay, needle) ==
    \E i \in 0..(Len(hay) - Len(needle)) :
        \A j \in 1..Len(needle) : SameLetterAnyCase(hay[i + j], needle[j])

\* C3: every error the guard raises is a RateLimitError if the failure's
\* message holds "rate limit" in some letter case, and a ProcessingError
\* otherwise; so is the error the decorated guard finally raises.
C3_GuardClassification ==
    kind = "guard" =>
        /\ \A j \in 1..Len(errLog) :
               /\ ~opLog[j].ok
               /\ errLog[j].type \in {"RateLimitError", "ProcessingError"}
               /\ errLog[j].type = "RateLimitError"
                      <=> ContainsAnyCase(opLog[j].msg, RateLimitNeedle)
        /\ pc = "raised" =>
               /\ ret.exc.type \in {"RateLimitError", "ProcessingError"}
               /\ ret.exc.type = "RateLimitError"
                      <=> ContainsAnyCase(opLog[Len(opLog)].msg, RateLimitNeedle)

C3_Witness ==
    /\ kind = "guard"
    /\ pc = "raised"
    /\ opLog[Len(opLog)].msg = MsgRateLimitExceeded
    /\ ret.exc.type = "RateLimitError"
    /\ opLog[1].type = "RateLimitError"
    /\ errLog[1].type = "ProcessingError"

\* C9: the generator never raises: a failed agent call gives the empty
\* mapping, a successful one the agent's result.
C9_GeneratorNeverRaises ==
    kind = "step5" =>
        /\ pc # "raised"
        /\ errLog = <<>>
        /\ pc = "returned" =>
               /\ ~ret.raised
               /\ opLog[Len(opLog)].ok => ret.value = opLog[Len(opLog)].value
               /\ ~opLog[Len(opLog)].ok => ret.value = EmptyDict

C9_Witness ==
    /\ kind = "step5"
    /\ pc = "returned"
    /\ ~opLog[1].ok
    /\ ret.value = EmptyDict

\* C10: a generator call whose agent failed at every invocation ends only
\* after Step5Retries invocations, with a sleep of Step5Delay between them
\* (so a later success of the agent would have been used).
C10_GeneratorRetried ==
    (kind = "step5" /\ Terminated /\ \A j \in 1..Len(opLog) : ~opLog[j].ok)
        => /\ Len(opLog) = Step5Retries
           /\ sleeps = [i \in 1..(Step5Retries - 1) |-> Step5Delay]

----------------------------------------------------------------------------
(* Claims about the categorizer                                            *)

\* name ends in a dot followed by the table entry e, in any letter case, with
\* at least one character before that dot
HasExtension(name, e) ==
    /\ Len(name) > Len(e) + 1
    /\ name[Len(name) - Len(e)] = "."
    /\ \A j \in 1..Len(e) : SameLetterAnyCase(name[Len(name) - Len(e) + j], e[j])

\* the places, in table order, of the categories whose list holds the
\* file's extension
MatchingCategories(name) ==
    { k \in 1..Len(CategoryOrder) :
        \E n \in 1..Len(FILE_CATEGORIES[CategoryOrder[k]]) :
            HasExtension(name, FILE_CATEGORIES[CategoryOrder[k]][n]) }

Occurrences(q, x) == Cardinality({n \in 1..Len(q) : q[n] = x})

\* C8: the mapping has the five category keys; each file seen so far whose
\* extension is in the table is once in the bucket of its first matching
\* category and in no other; each other file is in no bucket; every bucket
\* keeps the input order.
C8_CategorizerPartition ==
    ci >= 1 =>
        /\ DOMAIN categorized_files = {"pdf", "image", "excel", "csv", "other"}
        /\ \A c \in DOMAIN categorized_files :
               /\ \A n \in 1..Len(categorized_files[c]) :
                      categorized_files[c][n] \in 1..(ci - 1)
               /\ \A m, n \in 1..Len(categorized_files[c]) :
                      m < n => categorized_files[c][m] < categorized_files[c][n]
        /\ \A i \in 1..(ci - 1) :
               LET ks == MatchingCategories(uploaded_files[i])
               IN IF ks = {}
                  THEN \A c \in DOMAIN categorized_files :
                           Occurrences(categorized_files[c], i) = 0
                  ELSE LET first == CHOOSE k \in ks : \A j \in ks : k <= j
                       IN \A c \in DOMAIN categorized_files :
                              Occurrences(categorized_files[c], i)
                                  = IF c = CategoryOrder[first] THEN 1 ELSE 0

C8_Witness ==
    /\ Len(uploaded_files) = 2
    /\ ci = 3
    /\ uploaded_files[1] = <<"A", ".", "P", "D", "F">>
    /\ uploaded_files[2] = <<"g", ".", "e", "x", "e">>
    /\ categorized_files["pdf"] = <<1>>
    /\ \A c \in DOMAIN categorized_files \ {"pdf"} : categorized_files[c] = <<>>

----------------------------------------------------------------------------
(* Claims about the category processors and the dispatcher                 *)

\* mapping d holds the FileSummary built for the file at position i
EntryBy(d, i) ==
    /\ uploaded_files[i] \in DOMAIN d
    /\ d[uploaded_files[i]].by = i

\* some call of file i's own collaborators failed: its extraction step gave
\* no usable result, or one of its ingest calls raised
OwnCallFailed(i) ==
    \/ ext[i] \in {"falls_through", "raises", "returns"}
    \/ ingFailed[i]

\* the mapping file i's summary is in: the processor's while its category
\* runs, process_files' afterwards
MappingOf(i) ==
    IF dpc = "run" /\ CategoryOfFile(i) = CategoryOrder[category]
    THEN processed_files ELSE processed_files_summary

ErrorWord == <<"E", "r", "r", "o", "r">>

\* C5: a document-like, image or other file whose extraction collaborator
\* raised ends without an entry of its own in either mapping, with no entry
\* under its name when no other file has that name, and with exactly one
\* status, holding the word "Error", given to a supplied callback.
C5_AbsorbedFailure ==
    \A i \in Pos :
        (ext[i] = "raises" /\ IsDocumentLike(CategoryOfFile(i))) =>
            /\ fpc[i] = "failed"
            /\ dpc \in {"run", "returned"}
            /\ ~EntryBy(processed_files, i)
            /\ ~EntryBy(processed_files_summary, i)
            /\ (\A j \in Pos \ {i} : uploaded_files[j] # uploaded_files[i]) =>
                   /\ uploaded_files[i] \notin DOMAIN processed_files
                   /\ uploaded_files[i] \notin DOMAIN processed_files_summary
            /\ Len(status[i]) = IF hasCallback THEN 1 ELSE 0
            /\ \A n \in 1..Len(status[i]) :
                   Contains(StatusText(status[i][n], CategoryOfFile(i)), ErrorWord)

C5_Witness ==
    /\ Len(uploaded_files) = 1
    /\ hasCallback
    /\ CategoryOfFile(1) = "image"
    /\ ext[1] = "raises"
    /\ dpc = "returned"
    /\ processed_files_summary = EmptyMapping
    /\ status[1] = <<"error">>

\* C6: while a file's summarizer call is in flight, and ever after it, every
\* ingest call launched for the file has returned and none has raised; a
\* FileSummary built for the file is in a mapping only once the summarizer
\* call has returned.
C6_JoinOrdering ==
    \A i \in Pos :
        /\ fpc[i] \in {"summarize", "complete"} =>
               /\ ingRun[i] = 0
               /\ ~ingFailed[i]
        /\ (EntryBy(processed_files, i) \/ EntryBy(processed_files_summary, i))
               => fpc[i] = "complete"

C6_Witness ==
    \E i \in Pos :
        /\ fpc[i] = "summarize"
        /\ Len(sinkCalls[i]) = 2
        /\ ingRun[i] = 0

\* C7: the total_chunks of every FileSummary is the number of chunks the
\* extraction step of its file produced (the rows of the frame for a
\* spreadsheet or CSV file), whatever number of them went to the sink.
C7_TotalChunks ==
    \A d \in {processed_files, processed_files_summary} :
        \A name \in DOMAIN d :
            LET i == d[name].by
            IN /\ uploaded_files[i] = name
               /\ d[name].file_name = name
               /\ d[name].total_chunks = nchunks[i]
               /\ IsTabular(CategoryOfFile(i)) => d[name].total_chunks = Rows(name)

C7_Witness ==
    \E i \in Pos :
        /\ IsTabular(CategoryOfFile(i))
        /\ EntryBy(processed_files_summary, i)
        /\ processed_files_summary[uploaded_files[i]].total_chunks = 2
        /\ Len(sinkCalls[i]) = 1

----------------------------------------------------------------------------
(* Claims about generator calls sharing a semaphore                        *)

AgentCallsInFlight == Cardinality({k \in DOMAIN gpc : gpc[k] = "agent"})

----------------------------------------------------------------------------
(* Claims about the summarizer in the pipeline                             *)

\* C12: every summarizer call runs the document-summary agent once; a call
\* whose agent run failed raised nothing (the file's task went on to its
\* end) and returned summary "Error generating summary", document_type
\* "unknown" and the four lists key_points, themes, all_hashtags and
\* key_questions empty.
C12_SummarizerFallback ==
    \A i \in Pos :
        /\ Len(summarizer_log[i]) <= 1
        /\ \A n \in 1..Len(summarizer_log[i]) :
               LET call == summarizer_log[i][n]
               IN /\ Len(call.runs) = 1
                  /\ fpc[i] = "complete"
                  /\ ~call.runs[1] =>
                         /\ call.ret.summary = "Error generating summary"
                         /\ call.ret.document_type = "unknown"
                         /\ call.ret.key_points = <<>>
                         /\ call.ret.themes = <<>>
                         /\ call.ret.all_hashtags = <<>>
                         /\ call.ret.key_questions = <<>>
                         /\ DOMAIN call.ret = {"summary", "key_points",
                                "document_type", "themes", "all_hashtags",
                                "key_questions"}

C12_Witness ==
    \E i \in Pos :
        /\ Len(summarizer_log[i]) = 1
        /\ summarizer_log[i][1].runs = <<FALSE>>
        /\ summarizer_log[i][1].ret.document_type = "unknown"
        /\ dpc = "returned"

\* C13: a file whose extraction and ingest calls all succeeded and whose
\* summarizer call's agent run failed is completed: its last status is
\* "complete" and the FileSummary built for it carries the placeholder
\* summary, document_type "unknown" and the number of chunks its extraction
\* produced; the summary is in the mapping unless a file of the same name
\* stored its own after it.
SummarizerFailed(i) ==
    /\ Len(summarizer_log[i]) >= 1
    /\ ~summarizer_log[i][1].runs[Len(summarizer_log[i][1].runs)]

NameIsUnique(i) == \A j \in Pos \ {i} : uploaded_files[j] # uploaded_files[i]

----------------------------------------------------------------------------
(* Claims about the dispatcher                                             *)

InFlight(i) == fpc[i] \in {"extract", "meta", "ingest", "summarize"}

Ended(i) == fpc[i] \in {"complete", "failed"}

\* C14: the categories run one after another in the order of the table: a
\* task in flight belongs to the category being run; as soon as a file's
\* task has started, every file of a category earlier in the table has
\* ended, with a FileSummary stored or with its failure absorbed; so two
\* tasks in flight are of one category.
C14_DispatcherSequencing ==
    /\ dpc = "start" => \A i \in Pos : fpc[i] = "none"
    /\ \A i \in Pos : fpc[i] # "none" => CategoryOfFile(i) # ""
    /\ \A k \in 1..Len(CategoryOrder) :
           dpc # "start" =>
               \A n \in 1..Len(categorized_files[CategoryOrder[k]]) :
                   LET i == categorized_files[CategoryOrder[k]][n]
                   IN IF dpc = "returned"
                      THEN Ended(i)
                      ELSE /\ dpc = "run"
                           /\ k < category => Ended(i)
                           /\ k = category => (InFlight(i) \/ Ended(i))
                           /\ k > category => fpc[i] = "none"
    /\ \A i, j \in Pos :
           (InFlight(i) /\ InFlight(j)) => CategoryOfFile(i) = CategoryOfFile(j)
    /\ \A i \in Pos :
           fpc[i] = "complete" => uploaded_files[i] \in DOMAIN MappingOf(i)

C14_Witness ==
    /\ Len(uploaded_files) = 2
    /\ CategoryOfFile(2) = "pdf" /\ fpc[2] = "failed"
    /\ CategoryOfFile(1) = "excel" /\ fpc[1] = "ingest"
    /\ dpc = "run" /\ CategoryOrder[category] = "excel"

\* the parse, every per-chunk generator call, every ingest call and the
\* summarizer's agent run of file i succeeded
AllSucceeded(i) ==
    /\ ext[i] = "ok"
    /\ \A k \in DOMAIN chunk_results[i] : chunk_results[i][k]
    /\ ~ingFailed[i]
    /\ Len(summarizer_log[i]) = 1
    /\ summarizer_log[i][1].runs = <<TRUE>>

C16_DuplicateNames ==
    dpc = "returned" =>
        \A i \in Pos :
            fpc[i] = "complete" =>
                /\ uploaded_files[i] \in DOMAIN processed_files_summary
                /\ LET same == {j \in Pos : /\ uploaded_files[j] = uploaded_files[i]
                                             /\ fpc[j] = "complete"}
                       last == CHOOSE j \in same : \A m \in same : m <= j
                   IN processed_files_summary[uploaded_files[i]].by = last

\* what the collaborators answered for file i lets it complete: a usable
\* extraction (or parse) and no failed ingest call
AnswersLetComplete(i) ==
    /\ CategoryOfFile(i) # ""
    /\ ext[i] = "ok"
    /\ ~ingFailed[i]

\* the FileSummary fields (creation time and session id aside) that the
\* answers of file i's collaborators determine
FieldsFromAnswers(i) ==
    LET sm == summarizer_log[i][1].ret
    IN [file_name |-> uploaded_files[i],
        total_chunks |-> nchunks[i],
        summary |-> sm.summary,
        key_points |-> sm.key_points,
        document_type |-> sm.document_type,
        metadata |-> [themes |-> sm.themes, all_hashtags |-> sm.all_hashtags,
                      key_questions |-> sm.key_questions],
        by |-> i]

\* C17: for files of distinct names, the mapping process_files returns is
\* determined by the input and by what the collaborators answered, whatever
\* the interleaving of the file, metadata and ingest tasks was: its names
\* are those of the files whose answers let them complete, and the fields of
\* each FileSummary are those the file's answers give.  Two runs on the same
\* input with collaborators answering alike so return the same names and
\* fields.
C17_Determinism ==
    (dpc = "returned" /\ \A i \in Pos : NameIsUnique(i)) =>
        /\ DOMAIN processed_files_summary
               = {uploaded_files[i] : i \in {j \in Pos : AnswersLetComplete(j)}}
        /\ \A i \in Pos :
               AnswersLetComplete(i) =>
                   /\ Len(summarizer_log[i]) = 1
                   /\ processed_files_summary[uploaded_files[i]]
                          = FieldsFromAnswers(i)

C17_Witness ==
    /\ dpc = "returned"
    /\ Len(uploaded_files) = 2
    /\ uploaded_files[1] # uploaded_files[2]
    /\ CategoryOfFile(1) = "pdf" /\ CategoryOfFile(2) = "pdf"
    /\ AnswersLetComplete(1) /\ AnswersLetComplete(2)
    /\ nchunks[1] = 2 /\ nchunks[2] = 1
    /\ DOMAIN processed_files_summary = {uploaded_files[1], uploaded_files[2]}

----------------------------------------------------------------------------
(* Claims about the extraction step                                        *)

\* C18: what the extraction step hands to the category processor is always
\* a ProcessingResult, never no value; with success = True its
\* document_info is not null and its error is null, with success = False
\* its document_info is null.
C18_ProcessingResultInvariant ==
    \A i \in Pos :
        ~result[i].pending =>
            /\ ~result[i].isNone
            /\ result[i].success => (result[i].n >= 0 /\ ~result[i].error)
            /\ ~result[i].success => result[i].n = -1

----------------------------------------------------------------------------
(* Further claims about the retry wrapper and the guard                    *)

\* C19: every sleep of the wrapper is of the delay D it was given, and there
\* is one sleep after each failed attempt but the N-th: a run of f failed
\* attempts and then a success has slept f times, a run that used up its N
\* attempts N - 1 times, a run whose first attempt succeeded never.
C19_RetryDelays ==
    /\ \A n \in 1..Len(sleeps) : sleeps[n] = delay
    /\ pc \in {"call", "await"} =>
           Len(sleeps) = attempt /\ Len(errLog) = attempt
    /\ pc = "sleep" => Len(sleeps) = Len(errLog) - 1
    /\ pc = "returned" => Len(sleeps) = Len(errLog) /\ Len(sleeps) = Len(opLog) - 1
    /\ pc = "raised" => Len(errLog) = retries /\ Len(sleeps) = retries - 1
    /\ (pc = "returned" /\ Len(opLog) = 1) => sleeps = <<>>

C19_Witness ==
    /\ kind = "op"
    /\ retries = 3
    /\ delay = 2
    /\ pc = "raised"
    /\ Len(errLog) = 3
    /\ sleeps = <<2, 2>>

\* the error the guard raises for a failure with message msg at attempt a
ClassifiedError(msg, a) ==
    IF ContainsAnyCase(msg, RateLimitNeedle)
    THEN [type |-> "RateLimitError", msg |-> RateLimitPrefix \o msg, at |-> a]
    ELSE [type |-> "ProcessingError", msg |-> ProcessingPrefix \o msg, at |-> a]

\* C20: the guard is run up to 3 times, 2 apart, whatever its errors are:
\* an operation failing each time is invoked exactly 3 times and the error
\* raised in the end is the third failure's, classified; an operation that
\* succeeds at its first, second or third invocation makes the guard return
\* its value, nothing raised.
C20_GuardRetried ==
    kind = "guard" =>
        /\ retries = 3 /\ delay = 2
        /\ Len(opLog) <= 3
        /\ \A n \in 1..Len(sleeps) : sleeps[n] = 2
        /\ (Len(opLog) = 3 /\ \A j \in 1..3 : ~opLog[j].ok) => pc = "raised"
        /\ pc = "raised" =>
               /\ Len(opLog) = 3
               /\ \A j \in 1..3 : ~opLog[j].ok
               /\ ret.raised
               /\ ret.exc = ClassifiedError(opLog[3].msg, 3)
        /\ (Len(opLog) >= 1 /\ opLog[Len(opLog)].ok) =>
               /\ pc = "returned"
               /\ ~ret.raised
               /\ ret.value = opLog[Len(opLog)].value
        /\ (Len(opLog) \in 1..2 /\ ~opLog[Len(opLog)].ok) =>
               pc \in {"sleep", "call", "await"}

C20_Witness ==
    /\ kind = "guard"
    /\ pc = "raised"
    /\ Len(opLog) = 3
    /\ opLog[1].msg = MsgRateLimitLower
    /\ opLog[2].msg = MsgTimeout
    /\ opLog[3].msg = MsgRateLimitUpper
    /\ ret.exc.type = "RateLimitError"
    /\ sleeps = <<2, 2>>

----------------------------------------------------------------------------
(* C21..C24: what a file's task hands to the sink and to the summarizer    *)

\* the task of file i went past the launch of its ingest calls
IngestLaunched(i) ==
    /\ fpc[i] \in {"ingest", "summarize", "complete", "failed"}
    /\ ext[i] = "ok"

\* the ingest calls of file i that carry chunk k
CallsOfChunk(i, k) == {m \in DOMAIN sinkCalls[i] : sinkCalls[i][m].chunk = k}

\* C21: for a spreadsheet or CSV file, a chunk is handed to the sink if and
\* only if its per-chunk metadata result is non-empty; a chunk handed over is
\* sent exactly once, with its own metadata result and with its position in
\* the full chunk sequence (counted from 0, skipped positions left out) as
\* index; and the summarizer is given the text of every chunk, skipped ones
\* included, in order.
C21_TabularIngestFilter ==
    \A i \in Pos :
        (IngestLaunched(i) /\ IsTabular(CategoryOfFile(i))) =>
            /\ Len(chunk_results[i]) = nchunks[i] \/ nchunks[i] = 0
            /\ \A k \in 1..nchunks[i] :
                   Cardinality(CallsOfChunk(i, k)) =
                       IF chunk_results[i][k] THEN 1 ELSE 0
            /\ \A m \in DOMAIN sinkCalls[i] :
                   /\ sinkCalls[i][m].chunk \in 1..nchunks[i]
                   /\ sinkCalls[i][m].meta = sinkCalls[i][m].chunk
                   /\ sinkCalls[i][m].index = sinkCalls[i][m].chunk - 1
            /\ \A n \in DOMAIN summarizer_log[i] :
                   summarizer_log[i][n].chunks = [k \in 1..nchunks[i] |-> k]

\* a spreadsheet whose first chunk was skipped and whose second one was
\* ingested under index 1, the summarizer having been given both
C21_Witness ==
    \E i \in Pos :
        /\ CategoryOfFile(i) = "excel"
        /\ chunk_results[i] = <<FALSE, TRUE>>
        /\ Len(sinkCalls[i]) = 1
        /\ sinkCalls[i][1].index = 1
        /\ fpc[i] = "complete"
        /\ summarizer_log[i][1].chunks = <<1, 2>>

\* the extraction of file i returned success with a non-empty chunk list
ExtractionUsable(i) ==
    /\ ~result[i].pending
    /\ ~result[i].isNone
    /\ result[i].success
    /\ result[i].n >= 1

\* C22: for a document-like, image or other file whose extraction returned
\* success with a non-empty chunk list, the sink gets exactly one ingest call
\* per chunk of the result (none left out, none repeated, none made again
\* after a failed one), each with the file type of the category that
\* processed the file, and a summarizer call is given the chunk texts in the
\* result's order.
C22_DocumentIngest ==
    \A i \in Pos :
        (IsDocumentLike(CategoryOfFile(i)) /\ ExtractionUsable(i)) =>
            /\ Len(sinkCalls[i]) = result[i].n
            /\ \A k \in 1..result[i].n : Cardinality(CallsOfChunk(i, k)) = 1
            /\ \A m \in DOMAIN sinkCalls[i] :
                   /\ sinkCalls[i][m].file_type = CategoryOfFile(i)
                   /\ sinkCalls[i][m].meta = sinkCalls[i][m].chunk
                   /\ sinkCalls[i][m].index = sinkCalls[i][m].chunk
            /\ ingRun[i] <= Len(sinkCalls[i])
            /\ \A n \in DOMAIN summarizer_log[i] :
                   summarizer_log[i][n].chunks = [k \in 1..result[i].n |-> k]

\* a PDF of MaxChunks chunks, each ingested once as "pdf", then summarized
C22_Witness ==
    \E i \in Pos :
        /\ CategoryOfFile(i) = "pdf"
        /\ ExtractionUsable(i)
        /\ result[i].n = MaxChunks
        /\ Len(sinkCalls[i]) = MaxChunks
        /\ sinkCalls[i][MaxChunks].file_type = "pdf"
        /\ fpc[i] = "complete"
        /\ Len(summarizer_log[i]) = 1

\* the extraction of file i returned a ProcessingResult the processor has
\* no use for: success = False, or success = True with no chunk
ExtractionUnusable(i) ==
    /\ ~result[i].pending
    /\ ~result[i].isNone
    /\ ~result[i].success \/ result[i].n <= 0

\* C23: for a document-like, image or other file whose extraction returned a
\* ProcessingResult with success = False, or with success = True and an
\* empty or missing chunk list, no ingest call and no summarizer call is
\* made, no FileSummary is stored, and a supplied callback is given exactly
\* one status for the file, an error.
C23_UnusableResult ==
    \A i \in Pos :
        (ExtractionUnusable(i) /\ IsDocumentLike(CategoryOfFile(i))) =>
            /\ sinkCalls[i] = <<>>
            /\ ingRun[i] = 0
            /\ summarizer_log[i] = <<>>
            /\ ~EntryBy(processed_files, i)
            /\ ~EntryBy(processed_files_summary, i)
            /\ status[i] = IF hasCallback THEN <<"error">> ELSE <<>>
            /\ fpc[i] = "failed"

\* an image whose extraction returned success with an empty chunk list:
\* process_files has returned, nothing was ingested, summarized or stored,
\* and the callback was given the one error
C23_Witness ==
    \E i \in Pos :
        /\ hasCallback
        /\ CategoryOfFile(i) = "image"
        /\ ~result[i].pending
        /\ result[i].success
        /\ result[i].n = 0
        /\ status[i] = <<"error">>
        /\ dpc = "returned"
        /\ uploaded_files[i] \notin DOMAIN processed_files_summary

\* C24: when a file's task has ended, by storing its FileSummary or by
\* reporting an error, none of the ingest calls launched for the file is
\* still running; hence none is running once process_files has returned.
C24_NoIngestOutlivesTask ==
    /\ \A i \in Pos : fpc[i] \in {"complete", "failed"} => ingRun[i] = 0
    /\ dpc = "returned" => \A i \in Pos : ingRun[i] = 0

----------------------------------------------------------------------------
(* C25: termination of process_files                                       *)

\* an external call made for file i has not returned: the one its task
\* awaits, or an ingest call
CallInFlight(i) == InFlight(i) \/ ingRun[i] > 0

\* every external call returning or failing in the end, process_files returns
EventuallyReturns == <>(dpc = "returned")

\* as long as an external call made for a file has not returned, the file's
\* category is the one being run: process_files has not returned and no
\* later category has started (so a call that never returns holds both back
\* for ever)
PendingCallBlocks ==
    \A i \in Pos :
        CallInFlight(i) =>
            /\ dpc = "run"
            /\ CategoryOrder[category] = CategoryOfFile(i)

\* C25: under fair scheduling, every external call returning or failing in
\* the end, process_files returns, whatever the batch and whichever calls
\* fail; and an external call that never returns keeps its file's category
\* from finishing, process_files from returning and the later categories
\* from starting.
C25_Termination == EventuallyReturns /\ []PendingCallBlocks

=============================================================================
